---- MODULE Spec2Model ----
(***************************************************************************)
(* Model of minesweeper.py: the Minesweeper board, the Sentence class and  *)
(* the MinesweeperAI knowledge base (add_knowledge, mark_safe, mark_mine,  *)
(* make_safe_move, make_random_move).                                      *)
(***************************************************************************)
EXTENDS Integers, FiniteSets, Sequences, TLC

VARIABLES height, width, board, moves_made, safes, mines, knowledge,
          call, result, marks

vars == <<height, width, board, moves_made, safes, mines, knowledge,
          call, result, marks>>

\* Boards of every shape with at most MaxCells cells are explored.
MaxCells == 5

\* Number of direct mark_safe / mark_mine calls explored in SpecMark.
MaxMarks == 2

\* Boards of every shape with at most MaxMarkCells cells are explored in
\* SpecMark.
MaxMarkCells == 3

\* Boards of every shape with at most MaxRevealCells cells are explored in
\* SpecReveal, which makes at most MaxReveals add_knowledge calls.
MaxRevealCells == 9

MaxReveals == 1

\* The value Python's None is modelled by.
None == "None"

\* The last call: its name and arguments and, for add_knowledge, the
\* positions of the sentences that were resolvable when its scan started.
\* No call has been made yet.
NoCall == [op |-> "init", cell |-> None, count |-> 0, resolvable |-> {}]

\* MinesweeperAI.all_moves: product(range(height), range(width)).
all_moves == (0 .. height - 1) \X (0 .. width - 1)

\* MinesweeperAI.ghost_cells: the one-cell frame around the board.
ghost_cells == ((-1 .. height) \X (-1 .. width)) \ all_moves

\* Minesweeper.is_mine
is_mine(cell) == board[cell]

\* Minesweeper.nearby_mines: mines within one row and column, in bounds,
\* not counting the cell itself.
nearby_mines(cell) ==
    Cardinality({ n \in ((cell[1] - 1) .. (cell[1] + 1)) \X ((cell[2] - 1) .. (cell[2] + 1)) :
                    /\ n # cell
                    /\ 0 <= n[1] /\ n[1] < height /\ 0 <= n[2] /\ n[2] < width
                    /\ board[n] })

\* Sentence.__init__
Sentence(cells, count) ==
    [cells |-> cells, count |-> count, mines |-> {}, safes |-> {}]

\* Sentence.__eq__
SentenceEq(s, t) == s.cells = t.cells /\ s.count = t.count

\* A plausible slip: the count is decremented also for a cell the sentence
\* does not hold.
SentenceMarkMineAlways(s, cell) ==
    [s EXCEPT !.mines = @ \cup {cell}, !.cells = @ \ {cell}, !.count = @ - 1]

\* A plausible slip: the count is not decremented.
SentenceMarkMineKeepsCount(s, cell) ==
    IF cell \in s.cells
    THEN [s EXCEPT !.mines = @ \cup {cell}, !.cells = @ \ {cell}]
    ELSE s

\* Sentence.mark_mine
SentenceMarkMine(s, cell) ==
    IF cell \in s.cells
    THEN [s EXCEPT !.mines = @ \cup {cell}, !.cells = @ \ {cell}, !.count = @ - 1]
    ELSE s

\* A plausible slip: marking a cell safe decrements the count as mark_mine does.
SentenceMarkSafeDecrements(s, cell) ==
    IF cell \in s.cells
    THEN [s EXCEPT !.safes = @ \cup {cell}, !.cells = @ \ {cell}, !.count = @ - 1]
    ELSE s

\* Sentence.mark_safe
SentenceMarkSafe(s, cell) ==
    IF cell \in s.cells
    THEN [s EXCEPT !.safes = @ \cup {cell}, !.cells = @ \ {cell}]
    ELSE s

\* The knowledge base as one value: the fields of a MinesweeperAI object.
KB == [moves_made |-> moves_made, safes |-> safes, mines |-> mines,
       knowledge |-> knowledge]

\* MinesweeperAI.mark_mine
MarkMine(kb, cell) ==
    [kb EXCEPT !.mines = @ \cup {cell},
               !.knowledge = [n \in 1 .. Len(kb.knowledge) |->
                                 SentenceMarkMine(kb.knowledge[n], cell)]]

\* MinesweeperAI.mark_safe
MarkSafe(kb, cell) ==
    [kb EXCEPT !.safes = @ \cup {cell},
               !.knowledge = [n \in 1 .. Len(kb.knowledge) |->
                                 SentenceMarkSafe(kb.knowledge[n], cell)]]

\* The loop "for safe_cell in to_mark_safe: self.mark_safe(safe_cell)".
RECURSIVE MarkAllSafe(_, _)
MarkAllSafe(kb, to_mark_safe) ==
    IF to_mark_safe = {} THEN kb
    ELSE LET safe_cell == CHOOSE c \in to_mark_safe : TRUE
         IN  MarkAllSafe(MarkSafe(kb, safe_cell), to_mark_safe \ {safe_cell})

\* The loop "for found_mine in to_mark_mine: self.mark_mine(found_mine)".
RECURSIVE MarkAllMine(_, _)
MarkAllMine(kb, to_mark_mine) ==
    IF to_mark_mine = {} THEN kb
    ELSE LET found_mine == CHOOSE c \in to_mark_mine : TRUE
         IN  MarkAllMine(MarkMine(kb, found_mine), to_mark_mine \ {found_mine})

\* A plausible slip: the mine test written as len(cells) >= count.
ScanSentenceAtLeast(kb, n) ==
    LET kb1 == IF kb.knowledge[n].count = 0
               THEN MarkAllSafe(kb, kb.knowledge[n].cells)
               ELSE kb
    IN  IF Cardinality(kb1.knowledge[n].cells) >= kb1.knowledge[n].count
        THEN MarkAllMine(kb1, kb1.knowledge[n].cells)
        ELSE kb1

\* The body of "for sentence in self.knowledge" for the n-th sentence:
\* the count == 0 test, then the len(cells) == count test on the sentence
\* as the first test left it.
ScanSentence(kb, n) ==
    LET kb1 == IF kb.knowledge[n].count = 0
               THEN MarkAllSafe(kb, kb.knowledge[n].cells)
               ELSE kb
    IN  IF Cardinality(kb1.knowledge[n].cells) = kb1.knowledge[n].count
        THEN MarkAllMine(kb1, kb1.knowledge[n].cells)
        ELSE kb1

\* A plausible slip: the pass stops before the sentence appended last.
RECURSIVE ScanSkipsNew(_, _)
ScanSkipsNew(kb, n) ==
    IF n >= Len(kb.knowledge) THEN kb
    ELSE ScanSkipsNew(ScanSentence(kb, n), n + 1)

\* A plausible slip: only the sentence appended last is examined.
ScanNewOnly(kb, n) ==
    IF n > Len(kb.knowledge) THEN kb
    ELSE ScanSentence(kb, Len(kb.knowledge))

\* The single pass "for sentence in self.knowledge", from the n-th sentence on.
RECURSIVE Scan(_, _)
Scan(kb, n) ==
    IF n > Len(kb.knowledge) THEN kb
    ELSE Scan(ScanSentence(kb, n), n + 1)

\* A plausible slip: the ghost cells are not taken out.
NeighborsKeepsGhosts(cell) ==
    (((cell[1] - 1) .. (cell[1] + 1)) \X ((cell[2] - 1) .. (cell[2] + 1)))
        \ {cell}

\* A plausible slip: only the cells above, below, left and right are taken.
NeighborsOrthogonal(cell) ==
    { n \in all_moves :
        \/ (n[1] = cell[1] /\ (n[2] = cell[2] - 1 \/ n[2] = cell[2] + 1))
        \/ (n[2] = cell[2] /\ (n[1] = cell[1] - 1 \/ n[1] = cell[1] + 1)) }

\* The neighbours add_knowledge computes: the 3x3 block around the cell,
\* without the cell and without the ghost cells.
Neighbors(cell) ==
    ((((cell[1] - 1) .. (cell[1] + 1)) \X ((cell[2] - 1) .. (cell[2] + 1)))
        \ {cell}) \ ghost_cells

\* A plausible slip: step 2, self.safes.add(cell), is left out.
AppendedNotSafe(kb, cell, count) ==
    [kb EXCEPT !.moves_made = @ \cup {cell},
               !.knowledge = Append(@, Sentence(Neighbors(cell), count))]

\* add_knowledge up to and including the append of the new sentence.
Appended(kb, cell, count) ==
    [kb EXCEPT !.moves_made = @ \cup {cell},
               !.safes = @ \cup {cell},
               !.knowledge = Append(@, Sentence(Neighbors(cell), count))]

\* The positions of the sentences of kb that hold cells and pass one of the
\* two tests of the scan: count == 0 or len(cells) == count.
Resolvable(kb) ==
    { n \in 1 .. Len(kb.knowledge) :
        /\ kb.knowledge[n].cells # {}
        /\ \/ kb.knowledge[n].count = 0
           \/ Cardinality(kb.knowledge[n].cells) = kb.knowledge[n].count }

\* MinesweeperAI.add_knowledge as a function of the knowledge base.
AddKnowledgeOf(kb, cell, count) == Scan(Appended(kb, cell, count), 1)

\* The knowledge bases the loop over to_mark_safe passes through, in whatever
\* order the set is iterated: kb with any part of to_mark_safe marked.
MarkedSafeStates(kb, to_mark_safe) ==
    { MarkAllSafe(kb, part) : part \in SUBSET to_mark_safe }

\* The knowledge bases the loop over to_mark_mine passes through.
MarkedMineStates(kb, to_mark_mine) ==
    { MarkAllMine(kb, part) : part \in SUBSET to_mark_mine }

\* The knowledge bases the body of the scan passes through for the n-th
\* sentence, after each mark_safe and each mark_mine.
SentenceStates(kb, n) ==
    LET kb1 == IF kb.knowledge[n].count = 0
               THEN MarkAllSafe(kb, kb.knowledge[n].cells)
               ELSE kb
    IN  (IF kb.knowledge[n].count = 0
         THEN MarkedSafeStates(kb, kb.knowledge[n].cells)
         ELSE {kb})
        \cup
        (IF Cardinality(kb1.knowledge[n].cells) = kb1.knowledge[n].count
         THEN MarkedMineStates(kb1, kb1.knowledge[n].cells)
         ELSE {kb1})

\* The knowledge bases the scan passes through from the n-th sentence on,
\* the one it ends in included.
RECURSIVE ScanStates(_, _)
ScanStates(kb, n) ==
    IF n > Len(kb.knowledge) THEN {kb}
    ELSE SentenceStates(kb, n) \cup ScanStates(ScanSentence(kb, n), n + 1)

\* A plausible slip: the moves already made are not subtracted from safes.
SafeMoveResultsPlayed(kb) ==
    IF ~ (kb.moves_made \subseteq kb.safes) THEN {"Exception"}
    ELSE IF kb.safes = {} THEN {None}
    ELSE kb.safes

\* The outcomes of make_safe_move: an element of safes - moves_made (set.pop
\* picks any), None when it is empty, the exception when moves_made is not
\* a subset of safes.
SafeMoveResults(kb) ==
    IF ~ (kb.moves_made \subseteq kb.safes) THEN {"Exception"}
    ELSE IF kb.safes \ kb.moves_made = {} THEN {None}
    ELSE kb.safes \ kb.moves_made

\* A plausible slip: the known mines are not subtracted from all_moves.
RandomMoveResultsIgnoresMines(kb) ==
    IF all_moves \ kb.moves_made = {} THEN {"KeyError"}
    ELSE all_moves \ kb.moves_made

\* The outcomes of make_random_move: an element of
\* all_moves - (mines | moves_made), KeyError when pop() finds it empty.
RandomMoveResults(kb) ==
    IF all_moves \ (kb.mines \cup kb.moves_made) = {} THEN {"KeyError"}
    ELSE all_moves \ (kb.mines \cup kb.moves_made)

\* Minesweeper.__init__ and MinesweeperAI.__init__: a board of any shape and
\* any mine layout, an empty knowledge base.
InitOf(cells) ==
    /\ height \in 1 .. cells
    /\ width \in 1 .. cells
    /\ height * width <= cells
    /\ board \in [all_moves -> BOOLEAN]
    /\ moves_made = {}
    /\ safes = {}
    /\ mines = {}
    /\ knowledge = <<>>
    /\ call = NoCall
    /\ result = None
    /\ marks = 0

Init == InitOf(MaxCells)

InitMark == InitOf(MaxMarkCells)

\* The driver reveals a cell that is not a mine and was not revealed before
\* and reports its true neighbour count: ai.add_knowledge(cell, count).
AddKnowledge(cell) ==
    /\ cell \notin moves_made
    /\ ~ is_mine(cell)
    /\ LET count == nearby_mines(cell)
           kb == AddKnowledgeOf(KB, cell, count)
       IN  /\ moves_made' = kb.moves_made
           /\ safes' = kb.safes
           /\ mines' = kb.mines
           /\ knowledge' = kb.knowledge
           /\ call' = [op |-> "add_knowledge", cell |-> cell, count |-> count,
                       resolvable |-> Resolvable(Appended(KB, cell, count))]
    /\ result' = None
    /\ UNCHANGED <<height, width, board, marks>>

\* A plausible slip: pop() applied to self.safes itself.
AfterSafeMovePopsSafes(kb, move) ==
    IF move \in all_moves THEN [kb EXCEPT !.safes = @ \ {move}] ELSE kb

\* The knowledge base after make_safe_move returned move: pop() removes the
\* move from pot_safe_moves, the fresh set difference() built.
AfterSafeMove(kb, move) == kb

\* The knowledge base after make_random_move returned move: pop() removes the
\* move from pot_rand_moves, the fresh set difference() built.
AfterRandomMove(kb, move) == kb

\* ai.make_safe_move()
MakeSafeMove ==
    /\ \E move \in SafeMoveResults(KB) :
          /\ result' = move
          /\ LET kb == AfterSafeMove(KB, move)
             IN  /\ moves_made' = kb.moves_made
                 /\ safes' = kb.safes
                 /\ mines' = kb.mines
                 /\ knowledge' = kb.knowledge
    /\ call' = [op |-> "make_safe_move", cell |-> None, count |-> 0, resolvable |-> {}]
    /\ UNCHANGED <<height, width, board, marks>>

\* ai.make_random_move()
MakeRandomMove ==
    /\ \E move \in RandomMoveResults(KB) :
          /\ result' = move
          /\ LET kb == AfterRandomMove(KB, move)
             IN  /\ moves_made' = kb.moves_made
                 /\ safes' = kb.safes
                 /\ mines' = kb.mines
                 /\ knowledge' = kb.knowledge
    /\ call' = [op |-> "make_random_move", cell |-> None, count |-> 0, resolvable |-> {}]
    /\ UNCHANGED <<height, width, board, marks>>

\* A direct call ai.mark_safe(cell) on any cell of the board.
MarkSafeCall(cell) ==
    /\ marks < MaxMarks
    /\ marks' = marks + 1
    /\ LET kb == MarkSafe(KB, cell)
       IN  /\ moves_made' = kb.moves_made
           /\ safes' = kb.safes
           /\ mines' = kb.mines
           /\ knowledge' = kb.knowledge
    /\ call' = [op |-> "mark_safe", cell |-> cell, count |-> 0, resolvable |-> {}]
    /\ result' = None
    /\ UNCHANGED <<height, width, board>>

\* A direct call ai.mark_mine(cell) on any cell of the board.
MarkMineCall(cell) ==
    /\ marks < MaxMarks
    /\ marks' = marks + 1
    /\ LET kb == MarkMine(KB, cell)
       IN  /\ moves_made' = kb.moves_made
           /\ safes' = kb.safes
           /\ mines' = kb.mines
           /\ knowledge' = kb.knowledge
    /\ call' = [op |-> "mark_mine", cell |-> cell, count |-> 0, resolvable |-> {}]
    /\ result' = None
    /\ UNCHANGED <<height, width, board>>

Next ==
    \/ \E cell \in all_moves : AddKnowledge(cell)
    \/ MakeSafeMove
    \/ MakeRandomMove

Spec == Init /\ [][Next]_vars

\* A client that reveals cells, asks for safe moves and also calls mark_safe
\* and mark_mine directly.
NextMark ==
    \/ \E cell \in all_moves : AddKnowledge(cell)
    \/ MakeSafeMove
    \/ \E cell \in all_moves : MarkSafeCall(cell)
    \/ \E cell \in all_moves : MarkMineCall(cell)

SpecMark == InitMark /\ [][NextMark]_vars

InitReveal == InitOf(MaxRevealCells)

\* The first reveals of a game, on boards large enough to have corner, edge
\* and interior cells.
Reveal(cell) ==
    /\ Len(knowledge) < MaxReveals
    /\ AddKnowledge(cell)

NextReveal == \E cell \in all_moves : Reveal(cell)

SpecReveal == InitReveal /\ [][NextReveal]_vars

\* Scenario A: the 3x3 board with the single mine at (0,0), a fresh AI.
InitA ==
    /\ height = 3
    /\ width = 3
    /\ board = [c \in all_moves |-> c = <<0, 0>>]
    /\ moves_made = {}
    /\ safes = {}
    /\ mines = {}
    /\ knowledge = <<>>
    /\ call = NoCall
    /\ result = None
    /\ marks = 0

\* The driver of scenario A reveals (2,2) first.
RevealFirst ==
    /\ moves_made = {}
    /\ AddKnowledge(<<2, 2>>)

\* After each reveal the driver asks for a safe move.
AskSafeMove ==
    /\ call.op = "add_knowledge"
    /\ MakeSafeMove

\* The driver plays the cell make_safe_move returned and reports its count.
PlaySafeMove ==
    /\ call.op = "make_safe_move"
    /\ result \in all_moves
    /\ AddKnowledge(result)

NextA ==
    \/ RevealFirst
    \/ AskSafeMove
    \/ PlaySafeMove

SpecA == InitA /\ [][NextA]_vars

----------------------------------------------------------------------------
\* The cells of the board that hold a mine.
TrueMines == { c \in all_moves : board[c] }

\* The positions of the sentences in knowledge.
Sentences == 1 .. Len(knowledge)

\* C1 (soundness): a cell returned by make_safe_move, after any sequence of
\* add_knowledge calls consistent with the mine layout, is not a mine.
Soundness ==
    (call.op = "make_safe_move" /\ result \in all_moves) => ~ is_mine(result)

\* make_safe_move returned a cell deduced from a clue with a positive count,
\* on a board that holds a mine.
SoundnessWitness ==
    /\ call.op = "make_safe_move"
    /\ result \in all_moves
    /\ TrueMines # {}
    /\ \E n \in Sentences : knowledge[n].count > 0

\* C2 (disjointness): safes and mines have no cell in common.
Disjointness == safes \cap mines = {}

\* Both sets hold deduced cells: a mine, and a safe cell not yet played.
DisjointnessWitness ==
    /\ mines # {}
    /\ safes \ moves_made # {}

\* C3 (zero-count propagation to fixpoint): when add_knowledge has returned,
\* every sentence with count 0 has all its cells in safes.
ZeroCountPropagated ==
    \A n \in Sentences :
        knowledge[n].count = 0 => knowledge[n].cells \subseteq safes

\* C4 (full-count propagation to fixpoint): when add_knowledge has returned,
\* every sentence with non-empty cells and |cells| = count has all its cells
\* in mines.
FullCountPropagated ==
    \A n \in Sentences :
        (knowledge[n].cells # {}
            /\ Cardinality(knowledge[n].cells) = knowledge[n].count)
        => knowledge[n].cells \subseteq mines

\* C5 (known cells are absent from all sentences): after add_knowledge no
\* sentence holds a cell that is in safes or in mines.
KnownCellsAbsent ==
    \A n \in Sentences : knowledge[n].cells \cap (safes \cup mines) = {}

\* C6 (scenario C): when add_knowledge(cell, count) is called and the
\* neighbours of cell without the cells already in safes or mines are a
\* singleton {x} with one mine left to account for, x is in mines when the
\* call returns.
ScenarioC ==
    [][ (call'.op = "add_knowledge" /\ moves_made' # moves_made) =>
          LET unknown == Neighbors(call'.cell) \ (safes \cup mines)
              left == call'.count - Cardinality(Neighbors(call'.cell) \cap mines)
          IN  (Cardinality(unknown) = 1 /\ left = 1) => unknown \subseteq mines' ]_vars

\* C7 (make_safe_move result): None exactly when safes \ moves_made is empty,
\* otherwise a cell of safes that is not in moves_made.
SafeMoveResult ==
    call.op = "make_safe_move" =>
        /\ (result = None) <=> (safes \ moves_made = {})
        /\ result # None => result \in safes \ moves_made

\* make_safe_move returned a cell while some safe cells were already played.
SafeMoveResultWitness ==
    /\ call.op = "make_safe_move"
    /\ result \in all_moves
    /\ Cardinality(moves_made) >= 2

\* C8 (make_random_move result): when all_moves \ (moves_made \cup mines) is
\* not empty, the result is a cell of the board that is neither played nor a
\* known mine.
RandomMoveResult ==
    (call.op = "make_random_move" /\ all_moves \ (moves_made \cup mines) # {}) =>
        /\ result \in all_moves
        /\ result \notin moves_made
        /\ result \notin mines

\* make_random_move returned a cell while a mine and a played cell were known.
RandomMoveResultWitness ==
    /\ call.op = "make_random_move"
    /\ result \in all_moves
    /\ mines # {}
    /\ moves_made # {}

\* C9 (move queries are read-only): make_safe_move and make_random_move leave
\* moves_made, safes, mines and knowledge unchanged.
MoveQueriesReadOnly ==
    [][ call'.op \in {"make_safe_move", "make_random_move"} =>
          UNCHANGED <<moves_made, safes, mines, knowledge>> ]_vars

\* make_safe_move popped a cell out of a knowledge base that holds sentences.
MoveQueriesReadOnlyWitness ==
    /\ call.op = "make_safe_move"
    /\ result \in all_moves
    /\ Len(knowledge) >= 2

\* C10 (idempotence of global marking): mark_safe(c) twice leaves the state
\* mark_safe(c) once leaves, and likewise mark_mine(c); the second call
\* decrements no count.
MarkIdempotent ==
    \A c \in all_moves :
        /\ MarkSafe(MarkSafe(KB, c), c) = MarkSafe(KB, c)
        /\ MarkMine(MarkMine(KB, c), c) = MarkMine(KB, c)

\* A direct mark_mine call took its cell out of a sentence and decremented
\* the count of that sentence.
MarkIdempotentWitness ==
    /\ call.op = "mark_mine"
    /\ \E n \in Sentences : call.cell \in knowledge[n].mines


\* The cells the driver may reveal next: not revealed yet, not a mine.
NextReveals == { c \in all_moves : c \notin moves_made /\ ~ is_mine(c) }

\* The knowledge bases add_knowledge(cell, nearby_mines(cell)) passes through
\* from the current state: after the append, after each mark, at its return.
AddKnowledgeStates(cell) ==
    ScanStates(Appended(KB, cell, nearby_mines(cell)), 1)

\* Every sentence of kb has 0 <= count <= |cells|.
CountInBounds(kb) ==
    \A n \in 1 .. Len(kb.knowledge) :
        /\ 0 <= kb.knowledge[n].count
        /\ kb.knowledge[n].count <= Cardinality(kb.knowledge[n].cells)

\* C11 (sentence count bounds): every sentence has 0 <= count <= |cells| in
\* every state add_knowledge returns in and in every state the next
\* add_knowledge call passes through, so mark_mine never takes a count below 0.
CountBounds ==
    /\ CountInBounds(KB)
    /\ \A cell \in NextReveals :
          \A kb \in AddKnowledgeStates(cell) : CountInBounds(kb)

\* mark_mine has decremented the count of a sentence down to 0.
CountBoundsWitness ==
    /\ call.op = "add_knowledge"
    /\ \E n \in Sentences :
          knowledge[n].mines # {} /\ knowledge[n].count = 0

\* C12 (per-cell state machine): safes, mines and moves_made only grow, no
\* cell of safes or moves_made enters mines, and no cell of mines enters safes
\* or moves_made.
CellStateMachine ==
    [][ /\ safes \subseteq safes'
        /\ mines \subseteq mines'
        /\ moves_made \subseteq moves_made'
        /\ (mines' \ mines) \cap (safes \cup moves_made) = {}
        /\ ((safes' \ safes) \cup (moves_made' \ moves_made)) \cap mines = {}
        /\ (mines' \ mines) \cap (safes' \cup moves_made') = {} ]_vars

\* Cells have been played, one cell is a known mine and another is known safe
\* and not played.
CellStateMachineWitness ==
    /\ Cardinality(moves_made) >= 2
    /\ mines # {}
    /\ safes \ moves_made # {}

\* C13 (moves_made is a subset of safes): through add_knowledge, mark_safe and
\* mark_mine calls moves_made stays inside safes, and make_safe_move does not
\* raise its exception.
MovesMadeSafe ==
    /\ moves_made \subseteq safes
    /\ call.op = "make_safe_move" => result # "Exception"

\* make_safe_move was called after cells were revealed and a direct mark call
\* was made.
MovesMadeSafeWitness ==
    /\ call.op = "make_safe_move"
    /\ moves_made # {}
    /\ marks > 0


\* C14 (scenario B): on a 2x2 board with the mine at (0,0), after
\* add_knowledge((1,1), 1) alone, safes is {(1,1)}, mines is empty,
\* make_safe_move returns None and make_random_move returns one of (0,0),
\* (0,1), (1,0); on any board a single sentence with 0 < count < |cells|
\* marks nothing and stays as it was appended.
ScenarioB ==
    /\ (height = 2 /\ width = 2 /\ TrueMines = {<<0, 0>>}
            /\ moves_made = {<<1, 1>>}) =>
          /\ safes = {<<1, 1>>}
          /\ mines = {}
          /\ knowledge = <<Sentence({<<0, 0>>, <<0, 1>>, <<1, 0>>}, 1)>>
          /\ call.op = "make_safe_move" => result = None
          /\ call.op = "make_random_move" =>
                result \in {<<0, 0>>, <<0, 1>>, <<1, 0>>}
    /\ \A cell \in moves_made :
          (Len(knowledge) = 1 /\ 0 < nearby_mines(cell)
                /\ nearby_mines(cell) < Cardinality(Neighbors(cell))) =>
             /\ safes = {cell}
             /\ mines = {}
             /\ knowledge = <<Sentence(Neighbors(cell), nearby_mines(cell))>>

\* The 2x2 board with the mine at (0,0), (1,1) alone revealed, and
\* make_random_move has returned the mine (0,0).
ScenarioBWitness ==
    /\ height = 2 /\ width = 2 /\ TrueMines = {<<0, 0>>}
    /\ moves_made = {<<1, 1>>}
    /\ call.op = "make_random_move"
    /\ result = <<0, 0>>


\* C15 (scenario A, immediate marking) as claimed: on the 3x3 board with the
\* mine at (0,0), after add_knowledge((2,2), 0) all 8 other cells are in safes.
ScenarioAAllSafe ==
    moves_made = {<<2, 2>>} => (all_moves \ {<<2, 2>>}) \subseteq safes

\* C15 as amended: after add_knowledge((2,2), 0) safes holds (2,2) and its
\* three neighbours (1,1), (1,2), (2,1), no other cell, and mines is empty.
ScenarioANeighboursSafe ==
    moves_made = {<<2, 2>>} =>
        /\ safes = {<<2, 2>>, <<1, 1>>, <<1, 2>>, <<2, 1>>}
        /\ mines = {}

\* add_knowledge((2,2), 0) has returned on the board of scenario A.
ScenarioANeighboursSafeWitness ==
    /\ height = 3 /\ width = 3 /\ TrueMines = {<<0, 0>>}
    /\ call.op = "add_knowledge"
    /\ call.cell = <<2, 2>>
    /\ moves_made = {<<2, 2>>}

\* C16 (scenario A, no fallback needed): the driver that reveals (2,2) and then
\* plays what make_safe_move returns gets None only when all 8 cells that are
\* not the mine have been played.
ScenarioANoFallback ==
    (call.op = "make_safe_move" /\ result = None) =>
        moves_made = all_moves \ TrueMines

\* The driver has played all 8 cells and make_safe_move has returned None.
ScenarioANoFallbackWitness ==
    /\ call.op = "make_safe_move"
    /\ result = None
    /\ Cardinality(moves_made) = 8


\* The cells of the board at Chebyshev distance 1 from cell.
Chebyshev1(cell) ==
    { c \in all_moves :
        /\ c # cell
        /\ c[1] - cell[1] \in {-1, 0, 1}
        /\ c[2] - cell[2] \in {-1, 0, 1} }

\* C17 (neighbour set of a new sentence): the sentence add_knowledge(cell,
\* count) appends has, when appended, exactly the in-bounds cells at Chebyshev
\* distance 1 from cell and the given count, which with count taken from
\* nearby_mines is the number of mines among those cells.
NewSentenceNeighbours ==
    [][ (call'.op = "add_knowledge" /\ moves_made' # moves_made) =>
          LET kb == Appended(KB, call'.cell, call'.count)
              new_sentence == kb.knowledge[Len(kb.knowledge)]
          IN  /\ Len(kb.knowledge) = Len(knowledge) + 1
              /\ new_sentence.cells = Chebyshev1(call'.cell)
              /\ new_sentence.count = call'.count
              /\ new_sentence.count =
                    Cardinality(new_sentence.cells \cap TrueMines) ]_vars

\* The interior cell of a 3x3 board was revealed with mines around it.
NewSentenceNeighboursWitness ==
    /\ height = 3 /\ width = 3
    /\ call.op = "add_knowledge"
    /\ call.cell = <<1, 1>>
    /\ call.count >= 2


\* C18 (duplicate sentences are not added): add_knowledge appends no sentence
\* that is equal (same cells, same count) to a sentence that is in knowledge
\* at the moment of appending.
NoDuplicateSentence ==
    [][ (call'.op = "add_knowledge" /\ moves_made' # moves_made) =>
          \A n \in Sentences :
              ~ SentenceEq(knowledge[n],
                           Sentence(Neighbors(call'.cell), call'.count)) ]_vars


\* Every sentence of kb counts the mines of the board among its cells, and
\* kb.mines holds mines of the board only.
SentencesSound(kb) ==
    /\ \A n \in 1 .. Len(kb.knowledge) :
          kb.knowledge[n].count =
              Cardinality(kb.knowledge[n].cells \cap TrueMines)
    /\ kb.mines \subseteq TrueMines

\* C19 (sentence soundness): in every state add_knowledge returns in and in
\* every state inside the next add_knowledge call, after each mark_safe and
\* mark_mine of its scan, every sentence has count = number of true mines
\* among its cells, and mines holds true mines only.
SentenceSoundness ==
    /\ SentencesSound(KB)
    /\ \A cell \in NextReveals :
          \A kb \in AddKnowledgeStates(cell) : SentencesSound(kb)

\* A mine is known, and a sentence still holds cells with a mine among them.
SentenceSoundnessWitness ==
    /\ call.op = "add_knowledge"
    /\ mines # {}
    /\ \E n \in Sentences :
          knowledge[n].count > 0 /\ Cardinality(knowledge[n].cells) >= 2


\* C20 (missed deductions are caught up one call later): a sentence that is
\* in knowledge when add_knowledge starts its scan and then has count = 0 or
\* |cells| = count has empty cells when the call returns, and the cells it
\* held are in safes (count 0) or in mines (|cells| = count).
CaughtUp ==
    [][ (call'.op = "add_knowledge" /\ moves_made' # moves_made) =>
          LET kb == Appended(KB, call'.cell, call'.count)
          IN  \A n \in 1 .. Len(kb.knowledge) :
                /\ kb.knowledge[n].count = 0 =>
                      /\ knowledge'[n].cells = {}
                      /\ kb.knowledge[n].cells \subseteq safes'
                /\ Cardinality(kb.knowledge[n].cells) = kb.knowledge[n].count =>
                      /\ knowledge'[n].cells = {}
                      /\ kb.knowledge[n].cells \subseteq mines' ]_vars

\* add_knowledge has returned from a scan that started with an older sentence
\* resolvable and still holding cells: one an earlier call left unresolved.
CaughtUpWitness ==
    /\ call.op = "add_knowledge"
    /\ \E n \in call.resolvable :
          n < Len(knowledge) /\ knowledge[n].cells = {}

====
